---- MODULE Spec2Model ----
(***************************************************************************)
(* The vote aggregator and realtime reconciler of the Vibe Meter           *)
(* (src/src/hooks/useVibeMeter.ts), together with the parts of its         *)
(* environment the hook talks to: the votes table, the change feed and the *)
(* timer queue of the page.                                                *)
(*                                                                         *)
(* Handlers run to completion (one action each).  A request to the store   *)
(* is three steps: the call, the store handling it, the continuation after *)
(* the await.  React state is split in the value a setter has produced     *)
(* (isVoting) and the value the closures of the last render captured       *)
(* (renderedIsVoting).                                                     *)
(*                                                                         *)
(* The page (Index) hands the hook's notifications and its first counts to *)
(* the animation surface (PhysicsVoteCanvasWithRef): the bodies of the     *)
(* physics world, the deferred initialization of the engine and the timers *)
(* of the bulk load are part of the state.                                 *)
(***************************************************************************)
EXTENDS Integers, Sequences, FiniteSets, TLC

VARIABLES
    rows,               \* public.votes, in insertion order: [vibe, event_id]
    phase,              \* "unmounted" | "mounted" | "gone" (after unmount)
    eventId,            \* the eventId argument of the last render
    counts,             \* useState<VoteCounts>
    isLoading,          \* useState(true)
    isVoting,           \* useState(false)
    error,              \* useState<string | null>
    lastVotedVibe,      \* useState<VibeType | null>
    renderedIsVoting,   \* isVoting as captured by the vote closure in use
    fetches,            \* select requests awaiting their continuation
    inserts,            \* insert requests awaiting their continuation
    channels,           \* realtime channels of the client that are open
    timers,             \* pending setTimeout callbacks of vote()
    handled,            \* number of runs of the postgres_changes handler
    notified,           \* arguments of the onNewVote calls made so far
    fetchReturned,      \* value the last settled fetchCounts() resolved to
    voteCalls,          \* number of vote() calls made
    eventChanges,       \* number of times the eventId argument changed
    isInitialized,      \* isInitializedRef.current
    initFrame,          \* the animation frame of initPhysics is requested
    world,              \* bodies of engine.world, in insertion order
    bodyCount,          \* number of bodies created so far (source of ids)
    staged,             \* pending setTimeout callbacks of addMultipleEmojis
    elapsed,            \* ms since addMultipleEmojis was called
    bulkLoaded,         \* the initial-emojis effect ran with isLoading false
    search              \* query parameters of the location: [key, value]

\* The state of the animation surface and of the page effect feeding it.
canvas == <<isInitialized, initFrame, world, bodyCount, staged, elapsed,
            bulkLoaded>>

vars == <<rows, phase, eventId, counts, isLoading, isVoting, error,
          lastVotedVibe, renderedIsVoting, fetches, inserts, channels,
          timers, handled, notified, fetchReturned, voteCalls,
          eventChanges, isInitialized, initFrame, world, bodyCount, staged,
          elapsed, bulkLoaded, search>>

(***************************************************************************)
(* Bounds of the model.                                                    *)
(***************************************************************************)
SyncOtherRows == 3      \* SpecSync: rows inserted by other clients
EchoVoteCalls == 2      \* SpecEcho: vote() calls of this client
ScopeOtherRows == 2     \* SpecScope: rows inserted by other clients
ScopeChanges == 1       \* SpecScope: changes of the event query parameter
VoteCalls == 2          \* SpecVote: vote() calls of this client
TicksPerDelay == 3      \* clock steps the confirmation delay is cut in

(***************************************************************************)
(* Values of the program.                                                  *)
(***************************************************************************)
Vibes == {"fire", "meh", "sleep"}
ObjectPrototypeKeys == {"toString"}
OtherCategories == {"party"} \cup ObjectPrototypeKeys
Categories == Vibes \cup OtherCategories
Events == {"default", "concert1"}
Null == "null"
NaN == -1
ConfirmMs == 1500
FailedToLoad == "Failed to load votes"
VoteFailed == "Vote failed. Please try again."
ZeroCounts == [v \in Vibes |-> 0]

Min(a, b) == IF a <= b THEN a ELSE b
RemoveAt(s, i) == [k \in 1..(Len(s) - 1) |-> IF k < i THEN s[k] ELSE s[k + 1]]

(***************************************************************************)
(* fetchCounts: the reduction of the returned rows.                        *)
(***************************************************************************)
\* Mutant of SelectVibes: the select without its .eq('event_id', e) filter.
RECURSIVE SelectVibesUnfiltered(_, _, _)
SelectVibesUnfiltered(tbl, n, e) ==
    IF n = 0 THEN <<>>
    ELSE Append(SelectVibesUnfiltered(tbl, n - 1, e), tbl[n].vibe)

\* supabase.from('votes').select('vibe').eq('event_id', e) on the first n rows
SelectVibes(tbl, n, e) ==
    LET Eq(r) == r.event_id = e
        data == SelectSeq(SubSeq(tbl, 1, n), Eq)
    IN  [k \in 1..Len(data) |-> data[k].vibe]

\* `vibe in newCounts`: own keys and the keys inherited from Object.prototype
HasProperty(k, obj) == k \in DOMAIN obj \/ k \in ObjectPrototypeKeys

\* x + 1 on a JavaScript number
PlusOne(x) == IF x = NaN THEN NaN ELSE x + 1

\* obj[k] + 1 stored under k: a key that holds no number yields NaN
WithPlusOne(obj, k) ==
    IF k \in DOMAIN obj
    THEN [obj EXCEPT ![k] = PlusOne(@)]
    ELSE [j \in DOMAIN obj \cup {k} |-> IF j # k THEN obj[j] ELSE NaN]

\* `newCounts[vibe]++`
PostIncrement(obj, k) == WithPlusOne(obj, k)

\* The callback of data?.forEach: one row's vibe applied to newCounts and
\* initialVibes
ForEachStep(acc, vibe) ==
    IF HasProperty(vibe, acc.newCounts)
    THEN [newCounts |-> PostIncrement(acc.newCounts, vibe),
          initialVibes |-> Append(acc.initialVibes, vibe)]
    ELSE acc

\* data?.forEach(...): the callback applied to rows lo..hi in order, the
\* second half of the rows starting from the outcome of the first half
RECURSIVE ForEachRange(_, _, _, _)
ForEachRange(data, lo, hi, acc) ==
    IF lo > hi THEN acc
    ELSE IF lo = hi THEN ForEachStep(acc, data[lo])
    ELSE LET mid == (lo + hi) \div 2
         IN  CHOOSE out \in {ForEachRange(data, mid + 1, hi, firstHalf) :
                                firstHalf \in {ForEachRange(data, lo, mid, acc)}} :
                 TRUE

ReduceVotes(data, acc) == ForEachRange(data, 1, Len(data), acc)

FetchResult(data) ==
    ReduceVotes(data, [newCounts |-> ZeroCounts, initialVibes |-> <<>>])

\* Mutant of FetchOutcome: the catch block resets the counts.
FetchOutcomeResetting(f, tbl, prevCounts) ==
    IF f.status = "ok"
    THEN LET res == FetchResult(SelectVibes(tbl, f.upTo, f.event_id))
         IN  [counts |-> res.newCounts, error |-> Null,
              returned |-> res.initialVibes]
    ELSE [counts |-> ZeroCounts, error |-> FailedToLoad, returned |-> <<>>]

\* The try / catch of fetchCounts on the answer to request f: the counts and
\* the error it leaves and the value it returns.
FetchOutcome(f, tbl, prevCounts) ==
    IF f.status = "ok"
    THEN LET res == FetchResult(SelectVibes(tbl, f.upTo, f.event_id))
         IN  [counts |-> res.newCounts, error |-> Null,
              returned |-> res.initialVibes]
    ELSE [counts |-> prevCounts, error |-> FailedToLoad, returned |-> <<>>]

(***************************************************************************)
(* The postgres_changes handler.                                           *)
(***************************************************************************)
\* Mutant of Includes: the handler tests `if (vibe)` instead of membership.
IncludesTruthy(vibe) == vibe # ""

\* ['fire', 'meh', 'sleep'].includes(vibe)
Includes(vibe) == vibe \in {"fire", "meh", "sleep"}

\* Mutant of Incremented: the update is computed from the counts of the
\* first render, { ...counts, [vibe]: counts[vibe] + 1 }, instead of prev.
IncrementedFromStale(prev, vibe) == WithPlusOne(ZeroCounts, vibe)

\* (prev) => ({ ...prev, [vibe]: prev[vibe] + 1 })
Incremented(prev, vibe) == WithPlusOne(prev, vibe)

(***************************************************************************)
(* The change feed: a row is pushed to every joined channel whose filter   *)
(* event_id=eq.<id> matches it.                                            *)
(***************************************************************************)
Publish(chs, row) ==
    { IF c.joined /\ c.event_id = row.event_id
      THEN [c EXCEPT !.queue = Append(@, row.vibe)]
      ELSE c : c \in chs }

NewChannel(e) == [event_id |-> e, joined |-> FALSE, queue |-> <<>>]
NewFetch(e) == [event_id |-> e, status |-> "sent", upTo |-> 0]

\* The glyph drawn for each category.
EMOJI_MAP == [fire |-> "U+1F525", meh |-> "U+1F610", sleep |-> "U+1F634"]

\* The population cap of addEmoji, the per-category limit of the bulk load
\* and the delay between two staged insertions (ms).
BodyCap == 150
BulkPerVibe == 30
StaggerMs == 50

\* Floor, left wall and right wall, added to the world by initPhysics.
Walls ==
    [k \in 1..3 |-> [id |-> k, isStatic |-> TRUE, emoji |-> Null,
                     vibeType |-> Null]]

\* Matter.Bodies.circle(...) tagged with the glyph and the category.
NewBody(vibe, id) ==
    [id |-> id, isStatic |-> FALSE, emoji |-> EMOJI_MAP[vibe],
     vibeType |-> vibe]

IsLive(b) == ~b.isStatic

\* allBodies.filter(b => !b.isStatic)
DynamicBodies(w) == SelectSeq(w, IsLive)

\* Matter.Composite.add(world, body): the body goes last.
CompositeAdd(w, body) == Append(w, body)

\* toRemove.forEach(b => Matter.Composite.remove(world, b))
CompositeRemoveAll(w, toRemove) ==
    LET gone == {toRemove[k].id : k \in 1..Len(toRemove)}
        Stays(b) == b.id \notin gone
    IN  SelectSeq(w, Stays)

\* Mutant of TrimToCap: the newest surplus bodies are removed.
TrimNewest(w) ==
    LET dynamicBodies == DynamicBodies(w)
        n == Len(dynamicBodies)
    IN  IF n > BodyCap
        THEN CompositeRemoveAll(w, SubSeq(dynamicBodies, BodyCap + 1, n))
        ELSE w

\* Mutant of TrimToCap: the surplus is sliced from allBodies, the static
\* bodies included.
TrimAllBodies(w) ==
    LET n == Len(DynamicBodies(w))
    IN  IF n > BodyCap
        THEN CompositeRemoveAll(w, SubSeq(w, 1, n - BodyCap))
        ELSE w

\* "Remove old bodies if too many": dynamicBodies.slice(0, length - 150).
TrimToCap(w) ==
    LET dynamicBodies == DynamicBodies(w)
        n == Len(dynamicBodies)
    IN  IF n > BodyCap
        THEN CompositeRemoveAll(w, SubSeq(dynamicBodies, 1, n - BodyCap))
        ELSE w

\* The body of addEmoji once its guard has passed.
AddEmoji(w, vibe, id) == TrimToCap(CompositeAdd(w, NewBody(vibe, id)))

\* Every order of f fire, m meh and s sleep entries: the outcomes of
\* allVibes.sort(() => Math.random() - 0.5).  An order is an order of its
\* first half followed by an order of the rest, for every way of dealing the
\* entries to the two halves.
RECURSIVE Shuffled(_, _, _)
Shuffled(f, m, s) ==
    LET n == f + m + s
        half == n \div 2
        Dealt == {d \in (0..f) \X (0..m) : half - d[1] - d[2] \in 0..s}
    IN  IF n = 0 THEN {<<>>}
        ELSE IF n = 1
        THEN {<<IF f = 1 THEN "fire" ELSE IF m = 1 THEN "meh" ELSE "sleep">>}
        ELSE UNION {{a \o b :
                        a \in Shuffled(d[1], d[2], half - d[1] - d[2]),
                        b \in Shuffled(f - d[1], m - d[2],
                                      s - (half - d[1] - d[2]))} :
                    d \in Dealt}

\* Math.min(counts.c, 30) for a count that may be NaN: i < NaN is false.
BulkSize(n) == IF n = NaN THEN 0 ELSE Min(n, BulkPerVibe)

\* The lists the initial-emojis effect can pass to addMultipleEmojis.
AllVibes(cnt) ==
    Shuffled(BulkSize(cnt["fire"]), BulkSize(cnt["meh"]),
             BulkSize(cnt["sleep"]))

\* Mutant of Stagger: every callback is scheduled with delay 0.
StaggerNone(vibes) ==
    [k \in 1..Len(vibes) |-> [vibe |-> vibes[k], delay |-> 0]]

\* vibes.forEach((vibe, index) => setTimeout(..., index * 50))
Stagger(vibes) ==
    [k \in 1..Len(vibes) |-> [vibe |-> vibes[k], delay |-> (k - 1) * StaggerMs]]

(***************************************************************************)
(* useEventId: the event identifier of the page, from its query string.    *)
(***************************************************************************)
\* A value that is a string or null.
JsNull == [isNull |-> TRUE, str |-> ""]
JsString(str) == [isNull |-> FALSE, str |-> str]

\* searchParams.get(name): the value of the first parameter of that name,
\* null when there is none.
SearchParamsGet(q, name) ==
    LET Named(p) == p.key = name
        hits == SelectSeq(q, Named)
    IN  IF hits = <<>> THEN JsNull ELSE JsString(hits[1].value)

\* Mutant of UseEventId: `??` in place of `||`, so that only null falls back.
UseEventIdNullish(q) ==
    LET param == SearchParamsGet(q, "event")
    IN  IF param.isNull THEN "default" ELSE param.str

\* searchParams.get('event') || 'default': null and '' are falsy.
UseEventId(q) ==
    LET param == SearchParamsGet(q, "event")
    IN  IF param.isNull \/ param.str = "" THEN "default" ELSE param.str

\* The query string of a link to the page of event e.
LinkTo(e) ==
    IF e = "default" THEN <<>> ELSE <<[key |-> "event", value |-> e]>>

Init ==
    /\ rows = <<>>
    /\ phase = "unmounted"
    /\ eventId = "default"
    /\ counts = ZeroCounts
    /\ isLoading = TRUE
    /\ isVoting = FALSE
    /\ error = Null
    /\ lastVotedVibe = Null
    /\ renderedIsVoting = FALSE
    /\ fetches = <<>>
    /\ inserts = <<>>
    /\ channels = {}
    /\ timers = <<>>
    /\ handled = 0
    /\ notified = <<>>
    /\ fetchReturned = <<>>
    /\ voteCalls = 0
    /\ eventChanges = 0
    /\ isInitialized = FALSE
    /\ initFrame = FALSE
    /\ world = <<>>
    /\ bodyCount = 0
    /\ staged = <<>>
    /\ elapsed = 0
    /\ bulkLoaded = FALSE
    /\ search = <<>>

\* First render of the page at the query string q: useEventId resolves the
\* event, the effect of the animation surface requests the frame of
\* initPhysics, then the effect of useVibeMeter runs.
Open(q) ==
    /\ phase = "unmounted"
    /\ phase' = "mounted"
    /\ search' = q
    /\ eventId' = UseEventId(q)
    /\ fetches' = <<NewFetch(UseEventId(q))>>
    /\ channels' = {NewChannel(UseEventId(q))}
    /\ initFrame' = TRUE
    /\ UNCHANGED <<rows, counts, isLoading, isVoting, error, lastVotedVibe,
                   renderedIsVoting, inserts, timers, handled, notified, fetchReturned,
                   voteCalls, eventChanges>>
    /\ UNCHANGED <<isInitialized, world, bodyCount, staged, elapsed,
                   bulkLoaded>>

\* First render of the page at ?event=e.
Mount(e) == Open(LinkTo(e))

\* Another client (or the store's owner) inserts a row.
StoreInsert(v, e) ==
    /\ LET row == [vibe |-> v, event_id |-> e]
       IN  /\ rows' = Append(rows, row)
           /\ channels' = Publish(channels, row)
    /\ UNCHANGED <<phase, eventId, counts, isLoading, isVoting, error,
                   lastVotedVibe, renderedIsVoting, fetches, inserts, timers,
                   handled, notified, fetchReturned, voteCalls, eventChanges>>
    /\ UNCHANGED canvas
    /\ UNCHANGED search

\* Mutant of VibeCheck: the column has no CHECK constraint.
VibeCheckDropped(v) == TRUE

\* CHECK (vibe IN ('fire', 'meh', 'sleep')) of public.votes
VibeCheck(v) == v \in {"fire", "meh", "sleep"}

\* Another client asks the store to insert a row of any text: the table
\* takes it when its CHECK constraint holds.
ClientInsert(v, e) == VibeCheck(v) /\ StoreInsert(v, e)

\* Mutant of Vote: an accepted call increments the count at once.
VoteOptimistic(v) ==
    /\ phase = "mounted"
    /\ voteCalls' = voteCalls + 1
    /\ IF renderedIsVoting
       THEN UNCHANGED <<isVoting, error, inserts, counts>>
       ELSE /\ isVoting' = TRUE
            /\ error' = Null
            /\ counts' = WithPlusOne(counts, v)
            /\ inserts' = Append(inserts,
                   [vibe |-> v, event_id |-> eventId, status |-> "sent"])
    /\ UNCHANGED <<rows, phase, eventId, isLoading, lastVotedVibe,
                   renderedIsVoting, fetches, channels, timers, handled, notified,
                   fetchReturned, eventChanges>>
    /\ UNCHANGED canvas
    /\ UNCHANGED search

\* Mutant of Vote: the inserted object carries no event_id, so the column
\* takes its default.
VoteDefaultEvent(v) ==
    /\ phase = "mounted"
    /\ voteCalls' = voteCalls + 1
    /\ IF renderedIsVoting
       THEN UNCHANGED <<isVoting, error, inserts>>
       ELSE /\ isVoting' = TRUE
            /\ error' = Null
            /\ inserts' = Append(inserts,
                   [vibe |-> v, event_id |-> "default", status |-> "sent"])
    /\ UNCHANGED <<rows, phase, eventId, counts, isLoading, lastVotedVibe,
                   renderedIsVoting, fetches, channels, timers, handled, notified,
                   fetchReturned, eventChanges>>
    /\ UNCHANGED canvas
    /\ UNCHANGED search

\* vote(vibe) up to its await: the guard reads the isVoting of its closure.
Vote(v) ==
    /\ phase = "mounted"
    /\ voteCalls' = voteCalls + 1
    /\ IF renderedIsVoting
       THEN UNCHANGED <<isVoting, error, inserts>>
       ELSE /\ isVoting' = TRUE
            /\ error' = Null
            /\ inserts' = Append(inserts,
                   [vibe |-> v, event_id |-> eventId, status |-> "sent"])
    /\ UNCHANGED <<rows, phase, eventId, counts, isLoading, lastVotedVibe,
                   renderedIsVoting, fetches, channels, timers, handled, notified,
                   fetchReturned, eventChanges>>
    /\ UNCHANGED canvas
    /\ UNCHANGED search

\* The store handles insert request i: the row is stored and published, or
\* the request fails.
InsertHandled(i, ok) ==
    /\ i \in 1..Len(inserts)
    /\ inserts[i].status = "sent"
    /\ inserts' = [inserts EXCEPT ![i].status = IF ok THEN "ok" ELSE "err"]
    /\ IF ok
       THEN LET row == [vibe |-> inserts[i].vibe,
                        event_id |-> inserts[i].event_id]
            IN  /\ rows' = Append(rows, row)
                /\ channels' = Publish(channels, row)
       ELSE UNCHANGED <<rows, channels>>
    /\ UNCHANGED <<phase, eventId, counts, isLoading, isVoting, error,
                   lastVotedVibe, renderedIsVoting, fetches, timers, handled, notified,
                   fetchReturned, voteCalls, eventChanges>>
    /\ UNCHANGED canvas
    /\ UNCHANGED search

\* Mutant of InsertSettled: the guard is released at the end of the try
\* block instead of in finally, so a failed insert leaves isVoting set.
InsertSettledNoFinally(i) ==
    /\ i \in 1..Len(inserts)
    /\ inserts[i].status # "sent"
    /\ inserts' = RemoveAt(inserts, i)
    /\ IF inserts[i].status = "ok"
       THEN /\ timers' = Append(timers,
                   [left |-> ConfirmMs, vibe |-> inserts[i].vibe])
            /\ lastVotedVibe' =
                   IF phase = "mounted" THEN inserts[i].vibe ELSE lastVotedVibe
            /\ isVoting' = IF phase = "mounted" THEN FALSE ELSE isVoting
            /\ UNCHANGED error
       ELSE /\ error' = IF phase = "mounted" THEN VoteFailed ELSE error
            /\ UNCHANGED <<timers, lastVotedVibe, isVoting>>
    /\ UNCHANGED <<rows, phase, eventId, counts, isLoading, renderedIsVoting,
                   fetches, channels, handled, notified, fetchReturned, voteCalls,
                   eventChanges>>
    /\ UNCHANGED canvas
    /\ UNCHANGED search

\* Mutant of InsertSettled: the marker is set before the error of the
\* answer is looked at, so a failed insert sets it too.
InsertSettledMarkingFailure(i) ==
    /\ i \in 1..Len(inserts)
    /\ inserts[i].status # "sent"
    /\ inserts' = RemoveAt(inserts, i)
    /\ lastVotedVibe' =
           IF phase = "mounted" THEN inserts[i].vibe ELSE lastVotedVibe
    /\ IF inserts[i].status = "ok"
       THEN /\ timers' = Append(timers,
                   [left |-> ConfirmMs, vibe |-> inserts[i].vibe])
            /\ UNCHANGED error
       ELSE /\ error' = IF phase = "mounted" THEN VoteFailed ELSE error
            /\ UNCHANGED timers
    /\ isVoting' = IF phase = "mounted" THEN FALSE ELSE isVoting
    /\ UNCHANGED <<rows, phase, eventId, counts, isLoading, renderedIsVoting,
                   fetches, channels, handled, notified, fetchReturned, voteCalls,
                   eventChanges>>
    /\ UNCHANGED canvas
    /\ UNCHANGED search

\* vote(vibe) after its await: try / catch / finally.  The setters of an
\* unmounted component change nothing; the timeout is scheduled all the same.
InsertSettled(i) ==
    /\ i \in 1..Len(inserts)
    /\ inserts[i].status # "sent"
    /\ inserts' = RemoveAt(inserts, i)
    /\ IF inserts[i].status = "ok"
       THEN /\ timers' = Append(timers,
                   [left |-> ConfirmMs, vibe |-> inserts[i].vibe])
            /\ lastVotedVibe' =
                   IF phase = "mounted" THEN inserts[i].vibe ELSE lastVotedVibe
            /\ UNCHANGED error
       ELSE /\ error' = IF phase = "mounted" THEN VoteFailed ELSE error
            /\ UNCHANGED <<timers, lastVotedVibe>>
    /\ isVoting' = IF phase = "mounted" THEN FALSE ELSE isVoting
    /\ UNCHANGED <<rows, phase, eventId, counts, isLoading, renderedIsVoting,
                   fetches, channels, handled, notified, fetchReturned, voteCalls,
                   eventChanges>>
    /\ UNCHANGED canvas
    /\ UNCHANGED search

\* The store handles select request i: it answers with the rows it holds at
\* that moment, or the request fails.
FetchHandled(i, ok) ==
    /\ i \in 1..Len(fetches)
    /\ fetches[i].status = "sent"
    /\ fetches' = [fetches EXCEPT
                     ![i].status = IF ok THEN "ok" ELSE "err",
                     ![i].upTo = IF ok THEN Len(rows) ELSE 0]
    /\ UNCHANGED <<rows, phase, eventId, counts, isLoading, isVoting, error,
                   lastVotedVibe, renderedIsVoting, inserts, channels, timers,
                   handled, notified, fetchReturned, voteCalls, eventChanges>>
    /\ UNCHANGED canvas
    /\ UNCHANGED search

\* Mutant of FetchSettled: the catch block calls fetchCounts again.
FetchSettledRetrying(i) ==
    /\ i \in 1..Len(fetches)
    /\ fetches[i].status # "sent"
    /\ fetches' = IF fetches[i].status = "err"
                  THEN Append(RemoveAt(fetches, i), NewFetch(fetches[i].event_id))
                  ELSE RemoveAt(fetches, i)
    /\ LET out == FetchOutcome(fetches[i], rows, counts)
       IN  /\ fetchReturned' = out.returned
           /\ IF phase = "mounted"
              THEN /\ counts' = out.counts
                   /\ error' = out.error
                   /\ isLoading' = FALSE
              ELSE UNCHANGED <<counts, error, isLoading>>
    /\ UNCHANGED <<rows, phase, eventId, isVoting, lastVotedVibe,
                   renderedIsVoting, inserts, channels, timers, handled, notified,
                   voteCalls, eventChanges>>
    /\ UNCHANGED canvas
    /\ UNCHANGED search

\* Mutant of FetchSettled: the loading flag is cleared at the end of the try
\* block instead of in finally, so a failed fetch leaves it set.
FetchSettledNoFinally(i) ==
    /\ i \in 1..Len(fetches)
    /\ fetches[i].status # "sent"
    /\ fetches' = RemoveAt(fetches, i)
    /\ LET out == FetchOutcome(fetches[i], rows, counts)
       IN  /\ fetchReturned' = out.returned
           /\ IF phase = "mounted"
              THEN /\ counts' = out.counts
                   /\ error' = out.error
                   /\ isLoading' = IF fetches[i].status = "ok"
                                   THEN FALSE ELSE isLoading
              ELSE UNCHANGED <<counts, error, isLoading>>
    /\ UNCHANGED <<rows, phase, eventId, isVoting, lastVotedVibe,
                   renderedIsVoting, inserts, channels, timers, handled, notified,
                   voteCalls, eventChanges>>
    /\ UNCHANGED canvas
    /\ UNCHANGED search

\* fetchCounts after its await: try / catch / finally.
FetchSettled(i) ==
    /\ i \in 1..Len(fetches)
    /\ fetches[i].status # "sent"
    /\ fetches' = RemoveAt(fetches, i)
    /\ LET out == FetchOutcome(fetches[i], rows, counts)
       IN  /\ fetchReturned' = out.returned
           /\ IF phase = "mounted"
              THEN /\ counts' = out.counts
                   /\ error' = out.error
                   /\ isLoading' = FALSE
              ELSE UNCHANGED <<counts, error, isLoading>>
    /\ UNCHANGED <<rows, phase, eventId, isVoting, lastVotedVibe,
                   renderedIsVoting, inserts, channels, timers, handled, notified,
                   voteCalls, eventChanges>>
    /\ UNCHANGED canvas
    /\ UNCHANGED search

\* The realtime server acknowledges the subscription of channel c.
ChannelJoined(c) ==
    /\ c \in channels
    /\ ~c.joined
    /\ channels' = (channels \ {c}) \cup {[c EXCEPT !.joined = TRUE]}
    /\ UNCHANGED <<rows, phase, eventId, counts, isLoading, isVoting, error,
                   lastVotedVibe, renderedIsVoting, fetches, inserts, timers,
                   handled, notified, fetchReturned, voteCalls, eventChanges>>
    /\ UNCHANGED canvas
    /\ UNCHANGED search

\* The postgres_changes handler runs on the oldest undelivered payload of c;
\* its onNewVote callback is handleNewVote of the page, which calls addEmoji
\* (a no-op until the engine is initialized).
Deliver(c) ==
    /\ c \in channels
    /\ c.queue # <<>>
    /\ channels' = (channels \ {c}) \cup {[c EXCEPT !.queue = Tail(@)]}
    /\ handled' = handled + 1
    /\ LET vibe == Head(c.queue)
       IN  IF Includes(vibe)
           THEN /\ counts' = Incremented(counts, vibe)
                /\ notified' = Append(notified, vibe)
                /\ IF isInitialized
                   THEN /\ world' = AddEmoji(world, vibe, bodyCount + 1)
                        /\ bodyCount' = bodyCount + 1
                   ELSE UNCHANGED <<world, bodyCount>>
           ELSE UNCHANGED <<counts, notified, world, bodyCount>>
    /\ UNCHANGED <<rows, phase, eventId, isLoading, isVoting, error,
                   lastVotedVibe, renderedIsVoting, fetches, inserts, timers,
                   fetchReturned, voteCalls, eventChanges>>
    /\ UNCHANGED <<isInitialized, initFrame, staged, elapsed, bulkLoaded, search>>

\* The component re-renders: vote is re-created over the current isVoting.
Render ==
    /\ phase = "mounted"
    /\ renderedIsVoting # isVoting
    /\ renderedIsVoting' = isVoting
    /\ UNCHANGED <<rows, phase, eventId, counts, isLoading, isVoting, error,
                   lastVotedVibe, fetches, inserts, channels, timers, handled, notified,
                   fetchReturned, voteCalls, eventChanges>>
    /\ UNCHANGED canvas
    /\ UNCHANGED search

\* Mutant of ChangeEvent: the effect returns no cleanup, so the channel of
\* the previous event stays open.
ChangeEventLeaking(e) ==
    /\ phase = "mounted"
    /\ e # eventId
    /\ eventChanges' = eventChanges + 1
    /\ eventId' = e
    /\ renderedIsVoting' = isVoting
    /\ fetches' = Append(fetches, NewFetch(e))
    /\ channels' = channels \cup {NewChannel(e)}
    /\ search' = LinkTo(e)
    /\ UNCHANGED <<rows, phase, counts, isLoading, isVoting, error,
                   lastVotedVibe, inserts, timers, handled, notified, fetchReturned,
                   voteCalls>>
    /\ UNCHANGED canvas

\* The query string of the location changes to q: a render of the page.
\* When useEventId resolves another event than before, the cleanup of the
\* subscription effect runs, then the effect again; when it resolves the
\* same event, no effect runs.
Navigate(q) ==
    /\ phase = "mounted"
    /\ q # search
    /\ search' = q
    /\ eventId' = UseEventId(q)
    /\ renderedIsVoting' = isVoting
    /\ IF UseEventId(q) # eventId
       THEN /\ eventChanges' = eventChanges + 1
            /\ fetches' = Append(fetches, NewFetch(UseEventId(q)))
            /\ channels' = {c \in channels : c.event_id # eventId}
                               \cup {NewChannel(UseEventId(q))}
       ELSE UNCHANGED <<eventChanges, fetches, channels>>
    /\ UNCHANGED <<rows, phase, counts, isLoading, isVoting, error,
                   lastVotedVibe, inserts, timers, handled, notified, fetchReturned,
                   voteCalls>>
    /\ UNCHANGED canvas

\* The event query parameter changes to e.
ChangeEvent(e) == e # eventId /\ Navigate(LinkTo(e))

\* The page unmounts: the cleanup of the subscription effect and of the
\* effect of the animation surface.  Matter.Engine.clear empties the world
\* in some releases of the library and leaves it in others.
Unmount ==
    /\ phase = "mounted"
    /\ phase' = "gone"
    /\ channels' = {c \in channels : c.event_id # eventId}
    /\ initFrame' = FALSE
    /\ isInitialized' = FALSE
    /\ world' \in (IF isInitialized THEN {world, <<>>} ELSE {world})
    /\ UNCHANGED <<rows, eventId, counts, isLoading, isVoting, error,
                   lastVotedVibe, renderedIsVoting, fetches, inserts, timers,
                   handled, notified, fetchReturned, voteCalls, eventChanges>>
    /\ UNCHANGED <<bodyCount, staged, elapsed, bulkLoaded, search>>

\* Time passes, up to the next timeout that falls due.
TickMs == ConfirmMs \div TicksPerDelay
Tick ==
    /\ timers # <<>>
    /\ Head(timers).left > 0
    /\ LET d == Min(TickMs, Head(timers).left)
       IN  timers' = [k \in 1..Len(timers) |->
                         [timers[k] EXCEPT !.left = @ - d]]
    /\ UNCHANGED <<rows, phase, eventId, counts, isLoading, isVoting, error,
                   lastVotedVibe, renderedIsVoting, fetches, inserts, channels,
                   handled, notified, fetchReturned, voteCalls, eventChanges>>
    /\ UNCHANGED canvas
    /\ UNCHANGED search

\* Mutant of TimerFired: the callback also dismisses the error message.
TimerFiredClearing ==
    /\ timers # <<>>
    /\ Head(timers).left = 0
    /\ timers' = Tail(timers)
    /\ lastVotedVibe' = IF phase = "mounted" THEN Null ELSE lastVotedVibe
    /\ error' = IF phase = "mounted" THEN Null ELSE error
    /\ UNCHANGED <<rows, phase, eventId, counts, isLoading, isVoting,
                   renderedIsVoting, fetches, inserts, channels, handled, notified,
                   fetchReturned, voteCalls, eventChanges>>
    /\ UNCHANGED canvas
    /\ UNCHANGED search

\* The timeout callback of vote(): setLastVotedVibe(null).
TimerFired ==
    /\ timers # <<>>
    /\ Head(timers).left = 0
    /\ timers' = Tail(timers)
    /\ lastVotedVibe' = IF phase = "mounted" THEN Null ELSE lastVotedVibe
    /\ UNCHANGED <<rows, phase, eventId, counts, isLoading, isVoting, error,
                   renderedIsVoting, fetches, inserts, channels, handled, notified,
                   fetchReturned, voteCalls, eventChanges>>
    /\ UNCHANGED canvas
    /\ UNCHANGED search

\* The requested animation frame runs initPhysics with a container that has
\* non-zero dimensions (with zero dimensions it requests the next frame and
\* nothing changes).
InitPhysics ==
    /\ phase = "mounted"
    /\ initFrame
    /\ initFrame' = FALSE
    /\ world' = Walls
    /\ bodyCount' = Len(Walls)
    /\ isInitialized' = TRUE
    /\ UNCHANGED <<rows, phase, eventId, counts, isLoading, isVoting, error,
                   lastVotedVibe, renderedIsVoting, fetches, inserts, channels,
                   timers, handled, notified, fetchReturned, voteCalls,
                   eventChanges, staged, elapsed, bulkLoaded, search>>

\* The initial-emojis effect of the page on the render that sees isLoading
\* false: it stages the bodies and calls addMultipleEmojis.
BulkLoad ==
    /\ phase = "mounted"
    /\ ~isLoading
    /\ ~bulkLoaded
    /\ bulkLoaded' = TRUE
    /\ elapsed' = 0
    /\ \E allVibes \in AllVibes(counts) : staged' = Stagger(allVibes)
    /\ UNCHANGED <<rows, phase, eventId, counts, isLoading, isVoting, error,
                   lastVotedVibe, renderedIsVoting, fetches, inserts, channels,
                   timers, handled, notified, fetchReturned, voteCalls,
                   eventChanges, isInitialized, initFrame, world, bodyCount, search>>

\* Time passes, up to the moment the next staged callback falls due.
StaggerTick ==
    /\ staged # <<>>
    /\ Head(staged).delay > elapsed
    /\ elapsed' = elapsed + StaggerMs
    /\ UNCHANGED <<rows, phase, eventId, counts, isLoading, isVoting, error,
                   lastVotedVibe, renderedIsVoting, fetches, inserts, channels,
                   timers, handled, notified, fetchReturned, voteCalls,
                   eventChanges, isInitialized, initFrame, world, bodyCount,
                   staged, bulkLoaded, search>>

\* Mutant of StagedFired: the callback adds its body without testing the
\* engine, the container and isInitializedRef.
StagedFiredUnguarded ==
    /\ staged # <<>>
    /\ Head(staged).delay <= elapsed
    /\ staged' = Tail(staged)
    /\ world' = CompositeAdd(world, NewBody(Head(staged).vibe, bodyCount + 1))
    /\ bodyCount' = bodyCount + 1
    /\ UNCHANGED <<rows, phase, eventId, counts, isLoading, isVoting, error,
                   lastVotedVibe, renderedIsVoting, fetches, inserts, channels,
                   timers, handled, notified, fetchReturned, voteCalls,
                   eventChanges, isInitialized, initFrame, elapsed, bulkLoaded,
                   search>>

\* The oldest staged callback of addMultipleEmojis runs: it adds its body
\* when the engine is initialized, without looking at the population.
StagedFired ==
    /\ staged # <<>>
    /\ Head(staged).delay <= elapsed
    /\ staged' = Tail(staged)
    /\ IF isInitialized
       THEN /\ world' = CompositeAdd(world,
                             NewBody(Head(staged).vibe, bodyCount + 1))
            /\ bodyCount' = bodyCount + 1
       ELSE UNCHANGED <<world, bodyCount>>
    /\ UNCHANGED <<rows, phase, eventId, counts, isLoading, isVoting, error,
                   lastVotedVibe, renderedIsVoting, fetches, inserts, channels,
                   timers, handled, notified, fetchReturned, voteCalls,
                   eventChanges, isInitialized, initFrame, elapsed, bulkLoaded,
                   search>>

(***************************************************************************)
(* SpecSync: one page load.  Other clients insert rows of any category and *)
(* event while the bootstrap fetch and the subscription are under way.     *)
(***************************************************************************)
NextSync ==
    \/ \E e \in Events : Mount(e)
    \/ \E v \in Categories, e \in Events :
          Len(rows) < SyncOtherRows /\ StoreInsert(v, e)
    \/ \E i \in 1..Len(fetches), ok \in BOOLEAN : FetchHandled(i, ok)
    \/ \E i \in 1..Len(fetches) : FetchSettled(i)
    \/ \E c \in channels : ChannelJoined(c)
    \/ \E c \in channels : Deliver(c)

SpecSync == Init /\ [][NextSync]_vars

(***************************************************************************)
(* SpecEcho: one page load on which the client votes; its own rows are the *)
(* only ones inserted, and they come back through the change feed.         *)
(***************************************************************************)
NextEcho ==
    \/ \E e \in Events : Mount(e)
    \/ \E v \in Vibes : voteCalls < EchoVoteCalls /\ Vote(v)
    \/ \E i \in 1..Len(inserts), ok \in BOOLEAN : InsertHandled(i, ok)
    \/ \E i \in 1..Len(inserts) : InsertSettled(i)
    \/ \E i \in 1..Len(fetches), ok \in BOOLEAN : FetchHandled(i, ok)
    \/ \E i \in 1..Len(fetches) : FetchSettled(i)
    \/ \E c \in channels : ChannelJoined(c)
    \/ \E c \in channels : Deliver(c)
    \/ Render

SpecEcho == Init /\ [][NextEcho]_vars

(***************************************************************************)
(* SpecScope: the life of the subscription effect.  The event query        *)
(* parameter changes and the component unmounts while other clients vote   *)
(* on both events.                                                         *)
(***************************************************************************)
ScopeVibes == {"fire", "sleep"}    \* categories the other clients vote for

NextScope ==
    \/ \E e \in Events : Mount(e)
    \/ \E v \in ScopeVibes, e \in Events :
          Len(rows) < ScopeOtherRows /\ StoreInsert(v, e)
    \/ \E i \in 1..Len(fetches), ok \in BOOLEAN : FetchHandled(i, ok)
    \/ \E i \in 1..Len(fetches) : FetchSettled(i)
    \/ \E c \in channels : ChannelJoined(c)
    \/ \E c \in channels : Deliver(c)
    \/ \E e \in Events : eventChanges < ScopeChanges /\ ChangeEvent(e)
    \/ Unmount

SpecScope == Init /\ [][NextScope]_vars

(***************************************************************************)
(* SpecVote: the client votes repeatedly while time passes.  No other      *)
(* client is active and the subscription is not acknowledged yet.          *)
(***************************************************************************)
NextVote ==
    \/ \E e \in Events : Mount(e)
    \/ \E v \in Vibes : voteCalls < VoteCalls /\ Vote(v)
    \/ \E i \in 1..Len(inserts), ok \in BOOLEAN : InsertHandled(i, ok)
    \/ \E i \in 1..Len(inserts) : InsertSettled(i)
    \/ \E i \in 1..Len(fetches), ok \in BOOLEAN : FetchHandled(i, ok)
    \/ \E i \in 1..Len(fetches) : FetchSettled(i)
    \/ Render
    \/ Tick
    \/ TimerFired

SpecVote == Init /\ [][NextVote]_vars

\* Requests: votes and event changes together, every request free to fail;
\* no channel is acknowledged and no timer runs.
RetryVoteCalls == 2
RetryChanges == 1
RetryVibes == {"fire"}

NextRetry ==
    \/ \E e \in Events : Mount(e)
    \/ \E v \in RetryVibes : voteCalls < RetryVoteCalls /\ Vote(v)
    \/ \E i \in 1..Len(inserts), ok \in BOOLEAN : InsertHandled(i, ok)
    \/ \E i \in 1..Len(inserts) : InsertSettled(i)
    \/ \E i \in 1..Len(fetches), ok \in BOOLEAN : FetchHandled(i, ok)
    \/ \E i \in 1..Len(fetches) : FetchSettled(i)
    \/ Render
    \/ \E e \in Events : eventChanges < RetryChanges /\ ChangeEvent(e)

SpecRetry == Init /\ [][NextRetry]_vars

\* Writes: votes of every category while the event changes; the select
\* requests stay unanswered, no channel is acknowledged and no timer runs.
WriteVoteCalls == 2
WriteChanges == 1

NextWrite ==
    \/ \E e \in Events : Mount(e)
    \/ \E v \in Vibes : voteCalls < WriteVoteCalls /\ Vote(v)
    \/ \E i \in 1..Len(inserts), ok \in BOOLEAN : InsertHandled(i, ok)
    \/ \E i \in 1..Len(inserts) : InsertSettled(i)
    \/ Render
    \/ \E e \in Events : eventChanges < WriteChanges /\ ChangeEvent(e)

SpecWrite == Init /\ [][NextWrite]_vars

\* The store as a page load finds it: f fire, m meh and s sleep rows of the
\* default event, left by earlier visitors.
StoredRows(f, m, s) ==
    [k \in 1..(f + m + s) |->
        [vibe |-> IF k <= f THEN "fire" ELSE IF k <= f + m THEN "meh" ELSE "sleep",
         event_id |-> "default"]]

InitStored(r) ==
    /\ rows = r
    /\ phase = "unmounted"
    /\ eventId = "default"
    /\ counts = ZeroCounts
    /\ isLoading = TRUE
    /\ isVoting = FALSE
    /\ error = Null
    /\ lastVotedVibe = Null
    /\ renderedIsVoting = FALSE
    /\ fetches = <<>>
    /\ inserts = <<>>
    /\ channels = {}
    /\ timers = <<>>
    /\ handled = 0
    /\ notified = <<>>
    /\ fetchReturned = <<>>
    /\ voteCalls = 0
    /\ eventChanges = 0
    /\ isInitialized = FALSE
    /\ initFrame = FALSE
    /\ world = <<>>
    /\ bodyCount = 0
    /\ staged = <<>>
    /\ elapsed = 0
    /\ bulkLoaded = FALSE
    /\ search = <<>>

\* The page has loaded: the engine runs, the bootstrap fetch is over, the
\* subscription is acknowledged and every payload has been handled.
PageLive ==
    /\ phase = "mounted"
    /\ isInitialized
    /\ fetches = <<>>
    /\ \A c \in channels : c.joined /\ c.queue = <<>>

\* Population: a page load over a store that holds a full bulk load of one
\* category, then a burst of votes of other clients, one at a time, while
\* the staged bodies are still being inserted.
CapVotes == 122

InitCap == InitStored(StoredRows(BulkPerVibe, 0, 0))

NextCap ==
    \/ \E e \in Events : Mount(e)
    \/ \E i \in 1..Len(fetches), ok \in BOOLEAN : FetchHandled(i, ok)
    \/ \E i \in 1..Len(fetches) : FetchSettled(i)
    \/ \E c \in channels : ChannelJoined(c)
    \/ \E c \in channels : Deliver(c)
    \/ InitPhysics
    \/ BulkLoad
    \/ StaggerTick
    \/ StagedFired
    \/ /\ PageLive
       /\ Len(rows) < BulkPerVibe + CapVotes
       /\ StoreInsert("fire", "default")

SpecCap == InitCap /\ [][NextCap]_vars

\* Surface: page loads over stores of several sizes (none, a few rows of
\* each category, more than the bulk limit), with the engine initialized
\* at any moment, before or during the bulk load, and votes of other
\* clients notified one at a time between the end of the bootstrap fetch
\* and the bulk load.
CanvasVotes == 1
CanvasStores == {<<0, 0, 0>>, <<2, 1, 1>>, <<BulkPerVibe + 1, 0, 0>>}

\* The subscription is acknowledged and every payload has been handled.
FeedIdle ==
    /\ phase = "mounted"
    /\ \A c \in channels : c.joined /\ c.queue = <<>>

InitCanvas == \E t \in CanvasStores : InitStored(StoredRows(t[1], t[2], t[3]))

NextCanvas ==
    \/ \E e \in Events : Mount(e)
    \/ \E i \in 1..Len(fetches), ok \in BOOLEAN : FetchHandled(i, ok)
    \/ \E i \in 1..Len(fetches) : FetchSettled(i)
    \/ \E c \in channels : ChannelJoined(c)
    \/ \E c \in channels : Deliver(c)
    \/ InitPhysics
    \/ (\A c \in channels : c.queue = <<>>) /\ BulkLoad
    \/ StaggerTick
    \/ StagedFired
    \/ \E v \in Vibes :
          /\ FeedIdle
          /\ fetches = <<>>
          /\ ~bulkLoaded
          /\ Len(notified) < CanvasVotes
          /\ StoreInsert(v, eventId)

SpecCanvas == InitCanvas /\ [][NextCanvas]_vars

\* Teardown: page loads over a store with no rows or a few, with the engine
\* initialized at any moment or never, votes of other clients, and the page
\* unmounting at any moment: before the engine is initialized, while the
\* staged callbacks are pending, or after them.
TeardownVotes == 1
TeardownStores == {<<0, 0, 0>>, <<2, 1, 0>>}

InitTeardown ==
    \E t \in TeardownStores : InitStored(StoredRows(t[1], t[2], t[3]))

NextTeardown ==
    \/ \E e \in Events : Mount(e)
    \/ \E i \in 1..Len(fetches), ok \in BOOLEAN : FetchHandled(i, ok)
    \/ \E i \in 1..Len(fetches) : FetchSettled(i)
    \/ \E c \in channels : ChannelJoined(c)
    \/ \E c \in channels : Deliver(c)
    \/ InitPhysics
    \/ BulkLoad
    \/ StaggerTick
    \/ StagedFired
    \/ Unmount
    \/ \E v \in Vibes :
          /\ FeedIdle
          /\ Len(notified) < TeardownVotes
          /\ ClientInsert(v, eventId)

SpecTeardown == InitTeardown /\ [][NextTeardown]_vars

\* First glyphs: a page load over an empty store while other clients vote
\* and the event query parameter changes; the fetches may fail and the
\* engine may be initialized at any moment.  The initial-emojis effect of
\* the render that follows the first fetch runs before the next payload of
\* the feed is handled.
GlyphOtherRows == 2
GlyphChanges == 1
GlyphVibes == {"fire", "meh"}

NextGlyph ==
    \/ \E e \in Events : Mount(e)
    \/ \E v \in GlyphVibes :
          /\ phase = "mounted"
          /\ Len(rows) < GlyphOtherRows
          /\ ClientInsert(v, eventId)
    \/ \E i \in 1..Len(fetches), ok \in BOOLEAN : FetchHandled(i, ok)
    \/ \E i \in 1..Len(fetches) : FetchSettled(i)
    \/ \E c \in channels : ChannelJoined(c)
    \/ \E c \in channels : (isLoading \/ bulkLoaded) /\ Deliver(c)
    \/ \E e \in Events : eventChanges < GlyphChanges /\ ChangeEvent(e)
    \/ InitPhysics
    \/ BulkLoad
    \/ StaggerTick
    \/ StagedFired

SpecGlyph == Init /\ [][NextGlyph]_vars

\* Messages: the client votes for one category while its bootstrap fetch is
\* under way, every request free to fail; the echoes of its rows come back
\* through the feed, time passes and the page may unmount at any moment.
MessageVoteCalls == 2
MessageVibes == {"fire"}

NextMessage ==
    \/ \E e \in Events : Mount(e)
    \/ \E v \in MessageVibes : voteCalls < MessageVoteCalls /\ Vote(v)
    \/ \E i \in 1..Len(inserts), ok \in BOOLEAN : InsertHandled(i, ok)
    \/ \E i \in 1..Len(inserts) : InsertSettled(i)
    \/ \E i \in 1..Len(fetches), ok \in BOOLEAN : FetchHandled(i, ok)
    \/ \E i \in 1..Len(fetches) : FetchSettled(i)
    \/ \E c \in channels : ChannelJoined(c)
    \/ \E c \in channels : Deliver(c)
    \/ Render
    \/ Tick
    \/ TimerFired
    \/ Unmount

SpecMessage == Init /\ [][NextMessage]_vars

\* Table: one page load while other clients ask for rows of any category
\* and event; the table's constraint decides which ones are stored.
TableOtherRows == 3

NextTable ==
    \/ \E e \in Events : Mount(e)
    \/ \E v \in Categories, e \in Events :
          Len(rows) < TableOtherRows /\ ClientInsert(v, e)
    \/ \E i \in 1..Len(fetches), ok \in BOOLEAN : FetchHandled(i, ok)
    \/ \E i \in 1..Len(fetches) : FetchSettled(i)
    \/ \E c \in channels : ChannelJoined(c)
    \/ \E c \in channels : Deliver(c)

SpecTable == Init /\ [][NextTable]_vars

\* Addresses: the page is opened at, and later moved to, query strings of
\* up to ResolveParams parameters, with and without an 'event' parameter,
\* empty or not, alone, repeated or next to another parameter.
ResolveParams == 2
ResolveChanges == 1
QueryKeys == {"event", "ref"}
QueryValues == {"", "default", "concert1"}
Queries ==
    UNION {[1..n -> [key : QueryKeys, value : QueryValues]] :
              n \in 0..ResolveParams}

NextResolve ==
    \/ \E q \in Queries : Open(q)
    \/ \E q \in Queries : eventChanges < ResolveChanges /\ Navigate(q)
    \/ \E i \in 1..Len(fetches), ok \in BOOLEAN : FetchHandled(i, ok)
    \/ \E i \in 1..Len(fetches) : FetchSettled(i)

SpecResolve == Init /\ [][NextResolve]_vars

(***************************************************************************)
(* Properties.                                                             *)
(***************************************************************************)
\* Rows of category c stored for event e.
Tally(e, c) ==
    Cardinality({k \in 1..Len(rows) :
                    rows[k].event_id = e /\ rows[k].vibe = c})

\* Every payload pushed to the client has been handled.
FeedDrained == \A c \in channels : c.queue = <<>>

\* The step hands the oldest payload of channel c to the handler.
Delivers(c) ==
    /\ c \in channels
    /\ c.queue # <<>>
    /\ channels' = (channels \ {c}) \cup {[c EXCEPT !.queue = Tail(@)]}

\* The step is the continuation of select request i.
Settles(i) ==
    /\ i \in 1..Len(fetches)
    /\ fetches[i].status # "sent"
    /\ fetches' = RemoveAt(fetches, i)

\* C1: once every insert of the client has completed, the bootstrap fetch
\* has succeeded and the echo of every stored row has been delivered,
\* counts[c] is the number of rows of category c stored for the event.
C1_FinalCountsEqualSubmissions ==
    ( /\ phase = "mounted"
      /\ voteCalls > 0
      /\ inserts = <<>>
      /\ fetches = <<>>
      /\ error = Null
      /\ FeedDrained
      /\ handled = Len(rows) )
    => \A c \in Vibes : counts[c] = Tally(eventId, c)

\* C2: once the bootstrap fetch has succeeded and all feed events have been
\* delivered, every row inserted for the current event by any client
\* contributes exactly 1 to the count of its category.
C2_EveryRowCountedOnce ==
    ( /\ phase = "mounted"
      /\ fetches = <<>>
      /\ ~isLoading
      /\ error = Null
      /\ FeedDrained )
    => \A c \in Vibes : counts[c] = Tally(eventId, c)

\* C3: a vote() call made while an insert of the client is in flight is a
\* no-op, so the client never has two inserts in flight.
C3_SecondCallInFlightIsNoOp == Len(inserts) <= 1

\* C4: after every successful submission lastVotedVibe is the submitted
\* category until 1.5 seconds have passed since that submission, also when
\* the timeout of an earlier submission is still pending.
C4_MarkerLastsFullDelay ==
    ( /\ phase = "mounted"
      /\ timers # <<>>
      /\ timers[Len(timers)].left > 0 )
    => lastVotedVibe = timers[Len(timers)].vibe

\* C5: the handler run on a pushed row of category fire, meh or sleep adds
\* exactly 1 to the count of that category, leaves the other counts as they
\* are and calls onNewVote once, with that category.
C5_ValidInsertCountedAndNotified ==
    [][\A ch \in channels :
          (Delivers(ch) /\ Head(ch.queue) \in Vibes) =>
              LET vibe == Head(ch.queue)
              IN  /\ DOMAIN counts' = DOMAIN counts
                  /\ counts'[vibe] = counts[vibe] + 1
                  /\ \A k \in DOMAIN counts \ {vibe} : counts'[k] = counts[k]
                  /\ notified' = Append(notified, vibe)]_vars

\* Two pushed rows of different categories have been counted and notified.
C5_Witness ==
    /\ handled = 2
    /\ notified = <<"fire", "sleep">>
    /\ counts["fire"] = 1 /\ counts["meh"] = 0 /\ counts["sleep"] = 1

\* The step belongs to a vote() call: the call, the store's handling of its
\* insert, or its continuation.
VoteStep == inserts' # inserts \/ voteCalls' # voteCalls

\* C6: no step of vote() changes counts, whether the insert succeeds or
\* fails; the count of the submitted category goes up by one when the echo
\* of the insert is delivered.
C6_NoOptimisticIncrement ==
    [][ /\ VoteStep => counts' = counts
        /\ \A ch \in channels :
              (Delivers(ch) /\ Head(ch.queue) \in Vibes) =>
                  counts'[Head(ch.queue)] = counts[Head(ch.queue)] + 1 ]_vars

\* A vote for meh has succeeded and shows its confirmation while its echo is
\* still on its way: the count of meh has not moved.
C6_Witness ==
    /\ lastVotedVibe = "meh"
    /\ inserts = <<>>
    /\ ~isLoading
    /\ counts["meh"] = 0
    /\ \E ch \in channels : ch.queue = <<"meh">>

\* C7: the handler run on a pushed row whose category is not fire, meh or
\* sleep leaves counts as they are and does not call onNewVote.
C7_UnknownCategoryIgnored ==
    [][\A ch \in channels :
          (Delivers(ch) /\ Head(ch.queue) \notin Vibes) =>
              (counts' = counts /\ notified' = notified)]_vars

\* The handler has run on a valid and on an unknown category: one call of
\* onNewVote, one count.
C7_Witness ==
    /\ Len(rows) = 2
    /\ handled = 2
    /\ notified = <<"fire">>
    /\ ~isLoading
    /\ counts = [fire |-> 1, meh |-> 0, sleep |-> 0]
    /\ Tally(eventId, "party") = 1

\* C8: no row of an event other than the client's current one alters the
\* counts: not when it is inserted, not through a feed delivery and not
\* through the answer to a fetch, also after the event identifier changed.
C8_OtherEventRowsNeverAlterCounts ==
    [][ /\ \A i \in 1..Len(fetches) :
              ( /\ phase = "mounted"
                /\ Settles(i)
                /\ fetches[i].event_id # eventId
                /\ SelectVibes(rows, fetches[i].upTo, fetches[i].event_id)
                       # <<>> )
              => counts' = counts
        /\ \A ch \in channels :
              (Delivers(ch) /\ ch.event_id # eventId) => counts' = counts
        /\ ( /\ Len(rows') = Len(rows) + 1
             /\ rows'[Len(rows')].event_id # eventId )
              => counts' = counts ]_vars

\* C9: the continuation of a failed fetch leaves counts as they are, sets
\* error to "Failed to load votes" and isLoading to false, and fetchCounts
\* resolves to the empty list.
C9_FailedFetchKeepsCounts ==
    [][\A i \in 1..Len(fetches) :
          (phase = "mounted" /\ Settles(i) /\ fetches[i].status = "err") =>
              /\ counts' = counts
              /\ error' = "Failed to load votes"
              /\ isLoading' = FALSE
              /\ fetchReturned' = <<>>]_vars

\* The first load failed while the event has a fire row: the counts are
\* still all zero and the error is shown.
C9_Witness ==
    /\ phase = "mounted"
    /\ fetches = <<>>
    /\ ~isLoading
    /\ error = "Failed to load votes"
    /\ counts = [fire |-> 0, meh |-> 0, sleep |-> 0]
    /\ Tally(eventId, "fire") > 0

\* C10: the continuation of a successful fetch sets counts[c], for c in
\* fire, meh, sleep, to the number of returned rows of category c (the rows
\* of the fetched event the store held when it answered) and clears error.
C10_FetchReducesRowsToCounts ==
    [][\A i \in 1..Len(fetches) :
          (phase = "mounted" /\ Settles(i) /\ fetches[i].status = "ok") =>
              /\ \A c \in Vibes :
                    counts'[c] =
                        Cardinality({k \in 1..fetches[i].upTo :
                            /\ rows[k].event_id = fetches[i].event_id
                            /\ rows[k].vibe = c})
              /\ error' = Null]_vars

\* Fresh load of concert1 with 2 fire rows and 1 sleep row, no feed event.
C10_Witness ==
    /\ eventId = "concert1"
    /\ fetches = <<>>
    /\ ~isLoading
    /\ handled = 0
    /\ error = Null
    /\ counts = [fire |-> 2, meh |-> 0, sleep |-> 1]

\* C11: a mounted hook holds exactly one open channel and its filter is the
\* current event identifier (so the channel of the previous event is closed
\* by the step that changes the event); before mount and after unmount the
\* hook holds no open channel.
C11_SubscriptionPaired ==
    /\ phase = "mounted" =>
          /\ Cardinality(channels) = 1
          /\ \A ch \in channels : ch.event_id = eventId
    /\ phase # "mounted" => channels = {}

\* The event changed, the new channel was acknowledged, then the component
\* unmounted: nothing is left open.
C11_Witness ==
    /\ phase = "gone"
    /\ eventChanges = 1
    /\ handled > 0
    /\ channels = {}

\* A bootstrap fetch for the current event has been started and its
\* continuation has not run yet.
FetchPending ==
    \E i \in 1..Len(fetches) : fetches[i].event_id = eventId

\* C12: whenever the mounted hook has a bootstrap fetch pending for its
\* current event (the fetch of the mount or the fetch of a later event
\* change), isLoading is true.
C12_LoadingWhileFetchPending ==
    (phase = "mounted" /\ FetchPending) => isLoading

\* C13: the continuation of every answered fetch of a mounted hook, after
\* a success as after a failure, leaves isLoading false; and no step sets
\* isLoading back to true once it is false.
C13_LoadingClearedForGood ==
    [][ /\ \A i \in 1..Len(fetches) :
              (Settles(i) /\ phase = "mounted") => ~isLoading'
        /\ ~isLoading => ~isLoading' ]_vars

\* The first fetch failed and cleared the flag; the event then changed and
\* the flag is still false while the next fetch is in flight.
C13_Witness ==
    /\ phase = "mounted"
    /\ ~isLoading
    /\ error = FailedToLoad
    /\ eventChanges = 1
    /\ fetches # <<>>

\* The step is the continuation of insert request i.
SettlesInsert(i) ==
    /\ i \in 1..Len(inserts)
    /\ inserts[i].status # "sent"
    /\ inserts' = RemoveAt(inserts, i)

\* C14: the continuation of an answered insert leaves isVoting false after
\* a success as after a failure; after a failure error is the vote failure
\* message and lastVotedVibe is untouched; after a success error is left as
\* it was (null when vote() cleared it); and a vote() call made once the
\* released guard has been rendered issues a new insert.
C14_GuardReleasedEitherWay ==
    [][ /\ \A i \in 1..Len(inserts) :
              (SettlesInsert(i) /\ phase = "mounted") =>
                 /\ ~isVoting'
                 /\ inserts[i].status = "err" =>
                        error' = VoteFailed /\ lastVotedVibe' = lastVotedVibe
                 /\ inserts[i].status = "ok" => error' = error
        /\ (voteCalls' # voteCalls /\ ~isVoting /\ ~renderedIsVoting) =>
              /\ Len(inserts') = Len(inserts) + 1
              /\ inserts'[Len(inserts')].status = "sent"
              /\ isVoting' ]_vars

\* The first insert failed, the guard was released and the second vote()
\* call has issued a new insert, which is in flight.
C14_Witness ==
    /\ voteCalls = 2
    /\ rows = <<>>
    /\ lastVotedVibe = Null
    /\ Len(inserts) = 1
    /\ inserts[1].status = "sent"
    /\ isVoting
    /\ ~renderedIsVoting

\* Requests of a queue that the store has not handled yet.
Unanswered(reqs) ==
    Cardinality({k \in 1..Len(reqs) : reqs[k].status = "sent"})

\* The step runs the subscription effect: a mount or an event change.
EffectRuns ==
    /\ phase' = "mounted"
    /\ phase = "unmounted" \/ eventId' # eventId

\* C15: a select request is sent only by a mount or an event change, one
\* per run of the effect; an insert request is sent only by a vote() call,
\* one per accepted call; no other step, the continuation of a failed
\* request included, sends a request.
C15_NoAutomaticRetry ==
    [][ /\ Unanswered(fetches') > Unanswered(fetches) => EffectRuns
        /\ EffectRuns => Unanswered(fetches') = Unanswered(fetches) + 1
        /\ Unanswered(inserts') > Unanswered(inserts) =>
              /\ voteCalls' = voteCalls + 1
              /\ ~renderedIsVoting
              /\ Unanswered(inserts') = Unanswered(inserts) + 1
        /\ (voteCalls' # voteCalls /\ ~renderedIsVoting) =>
              Unanswered(inserts') = Unanswered(inserts) + 1
        /\ \A i \in 1..Len(fetches) :
              Settles(i) => /\ Unanswered(fetches') = Unanswered(fetches)
                            /\ inserts' = inserts
        /\ \A i \in 1..Len(inserts) :
              SettlesInsert(i) => /\ Unanswered(inserts') = Unanswered(inserts)
                                  /\ fetches' = fetches ]_vars

\* Both fetches and the insert have been answered, the insert with a
\* failure, and no request is in flight.
C15_Witness ==
    /\ phase = "mounted"
    /\ eventChanges = 1
    /\ voteCalls = 1
    /\ rows = <<>>
    /\ error = VoteFailed
    /\ ~isVoting
    /\ fetches = <<>>
    /\ inserts = <<>>

\* The step is the store accepting insert request i.
Stores(i) ==
    /\ i \in 1..Len(inserts)
    /\ inserts[i].status = "sent"
    /\ Len(inserts') = Len(inserts)
    /\ inserts'[i].status = "ok"

Live(w) == Len(DynamicBodies(w))

\* C17: the world never holds more than 150 live bodies, whatever the
\* interleaving of addEmoji calls and staged insertions of the bulk load.
C17_LiveBodiesWithinCap == Live(world) <= BodyCap

\* The step is a notification that reaches addEmoji on an initialized
\* engine.
AddsEmoji ==
    /\ isInitialized
    /\ Len(notified') = Len(notified) + 1

\* The last n entries of a sequence.
LastOf(q, n) == SubSeq(q, Len(q) - n + 1, Len(q))

\* C18: when addEmoji brings the live population above 150, the live
\* bodies left are exactly 150: the new body and the 149 inserted most
\* recently before it, in insertion order; the surplus removed is the
\* oldest.
C18_OldestSurplusRemoved ==
    [][ (AddsEmoji /\ Live(world) + 1 > BodyCap) =>
           LET new == NewBody(notified'[Len(notified')], bodyCount + 1)
               all == Append(DynamicBodies(world), new)
           IN  /\ Live(world') = BodyCap
               /\ DynamicBodies(world') = LastOf(all, BodyCap)
               /\ world'[Len(world')] = new ]_vars

\* The cap has been enforced: 150 live bodies, the newest is the last one
\* created and the first body ever inserted is gone.
C18_Witness ==
    /\ Live(world) = BodyCap
    /\ world[Len(world)].id = bodyCount
    /\ DynamicBodies(world)[1].id > Len(Walls) + 1
    /\ Len(notified) > 0

\* C19: every notification handed to the surface adds exactly one body to
\* the world, tagged with the glyph of the notified category, also when
\* the engine has not finished its deferred initialization.
C19_NotificationSpawnsOneBody ==
    [][ Len(notified') = Len(notified) + 1 =>
           LET vibe == notified'[Len(notified')]
           IN  /\ bodyCount' = bodyCount + 1
               /\ world' # <<>>
               /\ world'[Len(world')] = NewBody(vibe, bodyCount')
               /\ Live(world') = Min(Live(world) + 1, BodyCap) ]_vars

\* Number of entries of category c in a list of staged callbacks.
StagedOf(q, c) == Cardinality({k \in 1..Len(q) : q[k].vibe = c})

\* The step is the initial-emojis effect calling addMultipleEmojis.
BulkLoads == ~bulkLoaded /\ bulkLoaded'

\* The step runs the oldest staged callback.
StagedFires == staged # <<>> /\ staged' = Tail(staged)

\* C20: the bulk load stages min(counts[c], 30) bodies of each category c,
\* at most 90 in all, from the counts of the moment it runs; entry k of the
\* staged list (counted from 0) has delay k * 50 ms; the callbacks run in
\* staged order, each at its delay after the call, and on an initialized
\* engine each adds the body of its entry at the end of the world.
C20_BulkLoadStagesAndStaggers ==
    [][ /\ BulkLoads =>
              /\ \A c \in Vibes :
                    StagedOf(staged', c) = Min(counts[c], BulkPerVibe)
              /\ Len(staged') <= 3 * BulkPerVibe
              /\ \A k \in 1..Len(staged') :
                    staged'[k].delay = (k - 1) * StaggerMs
              /\ elapsed' = 0
        /\ StagedFires =>
              /\ elapsed = Head(staged).delay
              /\ \A k \in 1..Len(staged) :
                    staged[k].delay >= Head(staged).delay
              /\ isInitialized =>
                    /\ world' = Append(world,
                                   NewBody(Head(staged).vibe, bodyCount + 1))
                    /\ bodyCount' = bodyCount + 1 ]_vars

\* The store held 31 fire rows: 30 bodies were staged and the first two
\* have entered the world, 50 ms after the call.
C20_Witness ==
    /\ counts["fire"] = BulkPerVibe + 1
    /\ bulkLoaded
    /\ isInitialized
    /\ Len(staged) = BulkPerVibe - 2
    /\ elapsed = StaggerMs
    /\ Live(world) = 2

\* Positions of the parameters named 'event' in a query string.
EventParams(q) == {k \in 1..Len(q) : q[k].key = "event"}

\* C21: the event identifier of a mounted page is the value of the (first)
\* 'event' parameter of its query string when there is one and it is not
\* empty, and "default" when there is none or it is empty; the requests of
\* a mount are made for that identifier; it is never the empty string.
C21_EventIdResolved ==
    phase = "mounted" =>
       /\ EventParams(search) = {} => eventId = "default"
       /\ EventParams(search) # {} =>
             LET first == CHOOSE k \in EventParams(search) :
                              \A j \in EventParams(search) : k <= j
             IN  /\ search[first].value = "" => eventId = "default"
                 /\ search[first].value # "" => eventId = search[first].value
       /\ eventId # ""
       /\ \A c \in channels : c.event_id = eventId
       /\ eventChanges = 0 =>
             \A i \in 1..Len(fetches) : fetches[i].event_id = eventId

\* The page was opened at ?event=concert1 and moved to ?ref=&event=: the
\* empty parameter resolved to "default" and the scope changed.
C21_Witness ==
    /\ phase = "mounted"
    /\ search = <<[key |-> "ref", value |-> ""], [key |-> "event", value |-> ""]>>
    /\ eventId = "default"
    /\ eventChanges = 1
    /\ Len(fetches) = 2
    /\ fetches[1].event_id = "concert1"

\* C22: counts has exactly the keys fire, meh and sleep, and each of its
\* values is a non-negative integer.
C22_CountsWellFormed ==
    /\ DOMAIN counts = {"fire", "meh", "sleep"}
    /\ \A c \in DOMAIN counts : counts[c] \in Nat

\* The fetch counted one fire row and the handler counted a fire and a meh
\* row pushed after it.
C22_Witness ==
    /\ phase = "mounted"
    /\ fetches = <<>>
    /\ error = Null
    /\ handled = 2
    /\ counts = [fire |-> 2, meh |-> 1, sleep |-> 0]

\* The step is a vote() call that passes its guard.
AcceptsVote == voteCalls' # voteCalls /\ ~renderedIsVoting

\* The step is the continuation of a select request that succeeded.
SettlesFetchOk ==
    \E i \in 1..Len(fetches) : Settles(i) /\ fetches[i].status = "ok"

\* C23: error goes from a message to null only in the step that starts an
\* accepted vote() call or in the continuation of a successful fetch; both
\* of these steps leave it null on a mounted hook, whichever message was
\* pending; a feed event, a clock step, the marker's timeout and the
\* unmount leave error as it is.
C23_ErrorClearedOnlyByRetry ==
    [][ /\ (error # Null /\ error' = Null) => (AcceptsVote \/ SettlesFetchOk)
        /\ (AcceptsVote /\ phase = "mounted") => error' = Null
        /\ (SettlesFetchOk /\ phase = "mounted") => error' = Null
        /\ channels' # channels => error' = error
        /\ (timers' # timers /\ inserts' = inserts) => error' = error
        /\ phase' # phase => error' = error ]_vars

\* The only insert failed and the fetch succeeded after it: the vote
\* failure message is gone although no further vote was cast.
C23_Witness ==
    /\ phase = "mounted"
    /\ voteCalls = 1
    /\ rows = <<>>
    /\ inserts = <<>>
    /\ fetches = <<>>
    /\ ~isVoting
    /\ error = Null

\* C24: the initial-emojis effect stages bodies at most once per mount, in
\* a step that finds isLoading false, and no other step stages anything
\* (not a change of the event, not a change of counts); when the fetch of
\* the mount has failed, it stages nothing.
C24_BulkLoadOnce ==
    [][ /\ BulkLoads => ~isLoading
        /\ (staged' # staged /\ ~StagedFires) => BulkLoads
        /\ bulkLoaded => bulkLoaded'
        /\ ( /\ BulkLoads
             /\ eventChanges = 0
             /\ fetches = <<>>
             /\ error = FailedToLoad ) => staged' = <<>> ]_vars

\* C25: while the event identifier stays the same, no step moves the count
\* of a category to a smaller value.
C25_CountsNeverDecrease ==
    [][ eventId' = eventId =>
           \A c \in Vibes : counts'[c] >= counts[c] ]_vars

\* C26: the continuation of a fetch that was issued for an event the hook
\* has left since leaves counts, error and isLoading of the current event
\* as they are, whether it runs before or after the continuation of the
\* fetch of the current event.
C26_StaleFetchDiscarded ==
    [][\A i \in 1..Len(fetches) :
          ( /\ phase = "mounted"
            /\ Settles(i)
            /\ fetches[i].event_id # eventId )
          => /\ counts' = counts
             /\ error' = error
             /\ isLoading' = isLoading]_vars

\* C27: on a mounted hook isVoting is true exactly when an insert request
\* of the client awaits its continuation, and there is never more than one
\* such request.
C27_VotingIffInsertOutstanding ==
    phase = "mounted" =>
       /\ isVoting <=> Len(inserts) >= 1
       /\ Len(inserts) <= 1

\* The marker is null, or the timeout of the most recent successful
\* submission is still pending and the marker is its category.
MarkerIsRecent ==
    lastVotedVibe # Null =>
       /\ timers # <<>>
       /\ timers[Len(timers)].left \in 0..ConfirmMs
       /\ lastVotedVibe = timers[Len(timers)].vibe

\* C28: on a mounted hook lastVotedVibe is non-null only while the timeout
\* of the most recent successful submission is pending, that is within
\* 1.5 s of it, and it is then the category of that submission; it is null
\* once every timeout has run; the continuation of a failed insert leaves
\* it as it is.
C28_MarkerOnlyAfterRecentSuccess ==
    [][ /\ phase' = "mounted" => MarkerIsRecent'
        /\ \A i \in 1..Len(inserts) :
              (SettlesInsert(i) /\ inserts[i].status = "err") =>
                  lastVotedVibe' = lastVotedVibe ]_vars

\* A vote for fire succeeded, time passed, and a second vote failed: the
\* marker still shows fire and the failure message is up.
C28_Witness ==
    /\ phase = "mounted"
    /\ voteCalls = 2
    /\ Len(rows) = 1
    /\ inserts = <<>>
    /\ error = VoteFailed
    /\ lastVotedVibe = "fire"
    /\ Len(timers) = 1
    /\ timers[1].left < ConfirmMs

\* The step initializes the engine.
Initializes == ~isInitialized /\ isInitialized'

\* The step calls addEmoji (through handleNewVote).
CallsAddEmoji == Len(notified') = Len(notified) + 1

\* C29: a body enters the world only in the step that initializes the
\* engine (its walls) or while the engine is initialized; the engine is
\* initialized only on a mounted page whose frame request is pending, once
\* (no body was ever created before), and it is never initialized after
\* the cleanup; an addEmoji call or a staged callback that runs while the
\* engine is not initialized, before the initialization or after the
\* cleanup, leaves the world as it is.
C29_BodiesOnlyWhileInitialized ==
    [][ /\ bodyCount' # bodyCount => (Initializes \/ isInitialized)
        /\ Initializes => (phase = "mounted" /\ initFrame /\ bodyCount = 0)
        /\ phase = "gone" => (~isInitialized' /\ ~initFrame')
        /\ ((CallsAddEmoji \/ StagedFires) /\ ~isInitialized) =>
               (world' = world /\ bodyCount' = bodyCount) ]_vars

\* The page has unmounted after the bulk load of a store with rows and
\* every staged callback has run, all of them before the initialization
\* or after the cleanup: no glyph body was ever created.
C29_Witness ==
    /\ phase = "gone"
    /\ handled = 0
    /\ counts["fire"] > 0
    /\ bulkLoaded
    /\ staged = <<>>
    /\ bodyCount = Len(Walls)
    /\ ~isInitialized

\* The static bodies of a world, in insertion order.
IsStatic(b) == b.isStatic
StaticBodies(w) == SelectSeq(w, IsStatic)

\* C30: while the engine is initialized the static bodies of the world are
\* the floor, the left wall and the right wall, whatever addEmoji calls
\* (with their cap enforcement) and staged insertions of
\* addMultipleEmojis have run; a step changes the static bodies only by
\* initializing the engine.
C30_WallsRemain ==
    [][ /\ isInitialized' => StaticBodies(world') = Walls
        /\ (isInitialized /\ isInitialized') =>
               StaticBodies(world') = StaticBodies(world) ]_vars

\* The bulk load has been inserted, addEmoji has removed surplus bodies and
\* the three boundary bodies are still the first of the world.
C30_Witness ==
    /\ isInitialized /\ bulkLoaded /\ staged = <<>>
    /\ Len(notified) > 0
    /\ Live(world) = BodyCap
    /\ bodyCount > Len(Walls) + BodyCap
    /\ SubSeq(world, 1, Len(Walls)) = Walls

====
